---- MODULE Spec2Model ----
(***************************************************************************)
(* Request-to-inference orchestration of the ai_backend gateway:           *)
(* serializers (validation), TextExtractor (document extraction),          *)
(* HuggingFaceService (inference client adapter) and the three views       *)
(* (generate / summarize / generate-questions).                            *)
(*                                                                         *)
(* Python values are modelled as follows: a dict is a function whose       *)
(* DOMAIN is its set of keys, None is the string NoneValue, a float        *)
(* in [0.0, 1.0] is an integer number of tenths, a str is a TLA+ string.   *)
(***************************************************************************)
EXTENDS Integers, Sequences, FiniteSets, TLC

VARIABLES
    settings,    \* process-wide configuration (API credential, default model id)
    pc,          \* position of each coroutine: idle, awaiting, returned, done
    request,     \* the HTTP request each handler was invoked with
    stages,      \* pipeline stages each request has passed, in order
    extraction,  \* outcome of the text extraction each coroutine performed
    service,     \* HuggingFaceService objects, by object identity
    frame,       \* locals of the suspended adapter coroutine: operation, self
    remote,      \* remote inference calls each coroutine has issued, in order
    reply,       \* outcome of the awaited remote call
    result,      \* what the adapter operation returned to its caller
    response     \* the HTTP response of each request

vars == <<settings, pc, request, stages, extraction, service, frame, remote,
          reply, result, response>>

(* ------------------------------ bounds -------------------------------- *)

\* Number of coroutines (requests, or direct adapter invocations) that may
\* be in flight together.
NumRequests == 2

Reqs == 1..NumRequests

(* --------------------------- basic values ------------------------------ *)

NoneValue == "<None>"

EmptyDict == [k \in {} |-> NoneValue]

\* Python truthiness of a str-or-None value (`x or y`, `if not x`).
Truthy(x) == x # NoneValue /\ x # ""

\* dict.get(key, None)
DictGet(d, key) == IF key \in DOMAIN d THEN d[key] ELSE NoneValue

\* str.endswith(suffix)
endswith(s, suffix) ==
    /\ Len(s) >= Len(suffix)
    /\ SubSeq(s, Len(s) - Len(suffix) + 1, Len(s)) = suffix

\* Process-wide configuration (django.conf.settings), loaded at startup.
StartupSettings ==
    [HUGGINGFACE_API_KEY |-> "hf_key", DEFAULT_HUGGINGFACE_MODEL |-> "default-model"]

(* ---------------------------- serializers ------------------------------ *)

\* Field declarations: CharField / IntegerField / FloatField / FileField.
CharField(required, allow_blank) ==
    [kind |-> "char", required |-> required, allow_blank |-> allow_blank,
     min_value |-> 0, max_value |-> 0, has_default |-> FALSE, default |-> 0]

IntegerField(min_value, max_value, default) ==
    [kind |-> "int", required |-> FALSE, allow_blank |-> FALSE,
     min_value |-> min_value, max_value |-> max_value,
     has_default |-> TRUE, default |-> default]

\* Floats are counted in tenths: 0.0 .. 1.0 is 0 .. 10, 0.7 is 7.
FloatField(min_value, max_value, default) ==
    [kind |-> "float", required |-> FALSE, allow_blank |-> FALSE,
     min_value |-> min_value, max_value |-> max_value,
     has_default |-> TRUE, default |-> default]

FileField(required) ==
    [kind |-> "file", required |-> required, allow_blank |-> FALSE,
     min_value |-> 0, max_value |-> 0, has_default |-> FALSE, default |-> 0]

TextGenerationRequestSerializer ==
    [prompt      |-> CharField(TRUE, FALSE),
     max_length  |-> IntegerField(1, 1000, 100),
     temperature |-> FloatField(0, 10, 7),
     model_id    |-> CharField(FALSE, TRUE)]

TextSummarizationRequestSerializer ==
    [file       |-> FileField(TRUE),
     max_length |-> IntegerField(1, 1000, 200),
     min_length |-> IntegerField(1, 1000, 50),
     model_id   |-> CharField(FALSE, TRUE)]

TextQuestionGenerationRequestSerializer ==
    [context       |-> CharField(FALSE, TRUE),
     file          |-> FileField(FALSE),
     num_questions |-> IntegerField(1, 10, 5),
     model_id      |-> CharField(FALSE, TRUE)]

\* The raw value a field is validated from: uploaded files for a FileField,
\* form fields otherwise.
RawSource(field, req) == IF field.kind = "file" THEN req.FILES ELSE req.data

\* The error code of one field, "" when the field is acceptable.
FieldError(field, name, req) ==
    LET src == RawSource(field, req) IN
    IF name \notin DOMAIN src
    THEN IF field.required THEN "required" ELSE ""
    ELSE CASE field.kind = "char" ->
                IF src[name] = "" /\ ~field.allow_blank THEN "blank" ELSE ""
           [] field.kind \in {"int", "float"} ->
                IF src[name] < field.min_value THEN "min_value"
                ELSE IF src[name] > field.max_value THEN "max_value" ELSE ""
           [] OTHER -> ""

\* serializer.errors: every violated field with its error code.
SerializerErrors(serializer, req) ==
    LET bad == {n \in DOMAIN serializer : FieldError(serializer[n], n, req) # ""}
    IN [n \in bad |-> FieldError(serializer[n], n, req)]

is_valid(serializer, req) == DOMAIN SerializerErrors(serializer, req) = {}

\* serializer.validated_data: supplied fields, and defaults of absent ones.
validated_data(serializer, req) ==
    LET given == {n \in DOMAIN serializer : n \in DOMAIN RawSource(serializer[n], req)}
        dflt  == {n \in DOMAIN serializer \ given : serializer[n].has_default}
    IN [n \in given \cup dflt |->
          IF n \in given THEN RawSource(serializer[n], req)[n]
          ELSE serializer[n].default]

(* ---------------------------- TextExtractor ---------------------------- *)

\* TextExtractor(*args): __init__ takes exactly one positional argument.
TextExtractor__init__(args) ==
    IF Len(args) = 1
    THEN [raised |-> FALSE, exc |-> "", file_path |-> args[1]]
    ELSE [raised |-> TRUE,
          exc |-> "TextExtractor.__init__() missing 1 required positional argument: 'file_path'",
          file_path |-> NoneValue]

\* One format-specific extractor: it reads the file and either returns its
\* text or fails with the I/O or parse error of the library it uses.
Extractor(name, file_path, readable) ==
    IF readable
    THEN [raised |-> FALSE, exc |-> "", invoked |-> {name},
          text |-> "text of " \o file_path]
    ELSE [raised |-> TRUE, exc |-> "cannot read " \o file_path, invoked |-> {name},
          text |-> ""]

\* str.__contains__: `sub in s`
contains(s, sub) ==
    \E i \in 1..(Len(s) - Len(sub) + 1) : SubSeq(s, i, i + Len(sub) - 1) = sub

\* Mutant: the format is looked for anywhere in the path, not at its end.
extract_text_Contains(file_path, readable) ==
    IF contains(file_path, ".pdf") THEN Extractor("extract_text_from_pdf", file_path, readable)
    ELSE IF contains(file_path, ".docx") THEN Extractor("extract_text_from_docx", file_path, readable)
    ELSE IF contains(file_path, ".txt") THEN Extractor("extract_text_from_txt", file_path, readable)
    ELSE IF contains(file_path, ".html") THEN Extractor("extract_text_from_html", file_path, readable)
    ELSE IF contains(file_path, ".csv") THEN Extractor("extract_text_from_csv", file_path, readable)
    ELSE [raised |-> TRUE, exc |-> "Unsupported file format", invoked |-> {}, text |-> ""]

\* TextExtractor.extract_text: dispatch on the suffix of self.file_path.
extract_text(file_path, readable) ==
    IF endswith(file_path, ".pdf") THEN Extractor("extract_text_from_pdf", file_path, readable)
    ELSE IF endswith(file_path, ".docx") THEN Extractor("extract_text_from_docx", file_path, readable)
    ELSE IF endswith(file_path, ".txt") THEN Extractor("extract_text_from_txt", file_path, readable)
    ELSE IF endswith(file_path, ".html") THEN Extractor("extract_text_from_html", file_path, readable)
    ELSE IF endswith(file_path, ".csv") THEN Extractor("extract_text_from_csv", file_path, readable)
    ELSE [raised |-> TRUE, exc |-> "Unsupported file format", invoked |-> {}, text |-> ""]

\* The views' extraction step: `TextExtractor()` then `.extract_text()`,
\* both inside one try block.
ViewExtract(readable) ==
    LET ctor == TextExtractor__init__(<< >>) IN
    IF ctor.raised
    THEN [raised |-> TRUE, exc |-> ctor.exc, invoked |-> {}, text |-> ""]
    ELSE extract_text(ctor.file_path, readable)

(* -------------------------- HuggingFaceService ------------------------- *)

\* Mutant: `is None` tests instead of `or`: a blank argument is kept.
HuggingFaceService__init__NoneOnly(api_key, model_id, cfg) ==
    LET key   == IF api_key # NoneValue THEN api_key ELSE cfg.HUGGINGFACE_API_KEY
        model == IF model_id # NoneValue THEN model_id ELSE cfg.DEFAULT_HUGGINGFACE_MODEL
    IN [api_key |-> key, model_id |-> model,
        client |-> [model |-> model, token |-> key]]

\* HuggingFaceService.__init__: `x or settings.Y` for both arguments.
HuggingFaceService__init__(api_key, model_id, cfg) ==
    LET key   == IF Truthy(api_key) THEN api_key ELSE cfg.HUGGINGFACE_API_KEY
        model == IF Truthy(model_id) THEN model_id ELSE cfg.DEFAULT_HUGGINGFACE_MODEL
    IN [api_key |-> key, model_id |-> model,
        client |-> [model |-> model, token |-> key]]

\* Mutant: max_length is forwarded to the remote call.
generate_text_MaxLength(self, prompt, max_length, temperature) ==
    [task |-> "text_generation", model |-> self.client.model,
     token |-> self.client.token, input |-> prompt,
     parameters |-> [temperature |-> temperature, return_full_text |-> FALSE,
                     max_new_tokens |-> max_length]]

\* The remote call each operation hands to the executor.
generate_text(self, prompt, max_length, temperature) ==
    [task |-> "text_generation", model |-> self.client.model,
     token |-> self.client.token, input |-> prompt,
     parameters |-> [temperature |-> temperature, return_full_text |-> FALSE]]

summarize_text(self, text, max_length, min_length) ==
    [task |-> "summarization", model |-> self.client.model,
     token |-> self.client.token, input |-> text,
     parameters |-> [max_length |-> max_length, min_length |-> min_length,
                     do_sample |-> FALSE]]

generate_questions(self, context, num_questions) ==
    [task |-> "text2text_generation", model |-> self.client.model,
     token |-> self.client.token, input |-> "generate questions: " \o context,
     parameters |-> [max_length |-> 64, num_return_sequences |-> num_questions,
                     do_sample |-> TRUE]]

\* What an operation returns once the awaited executor call has finished:
\* the `return {...}` of the try body, or of `except Exception as e`.
SuccessEnvelope(op, self, payload) ==
    IF op = "generate_questions"
    THEN [status |-> "success", model |-> self.model_id, questions |-> payload]
    ELSE [status |-> "success", model |-> self.model_id, response |-> payload]

ErrorEnvelope(op, self, e) ==
    [status |-> "error", message |-> "Error: " \o e, model |-> self.model_id]

\* Mutant: no except clause, the exception of the remote call propagates.
AdapterReturn_NoExcept(op, self, outcome) ==
    IF outcome.kind = "return"
    THEN [raised |-> FALSE, value |-> SuccessEnvelope(op, self, outcome.value)]
    ELSE [raised |-> TRUE, value |-> EmptyDict]

\* outcome is that of the remote call: [kind: "return" | "raise", value].
\* Both branches return normally: the except clause catches every Exception.
AdapterReturn(op, self, outcome) ==
    IF outcome.kind = "return"
    THEN [raised |-> FALSE, value |-> SuccessEnvelope(op, self, outcome.value)]
    ELSE [raised |-> FALSE, value |-> ErrorEnvelope(op, self, outcome.value)]

(* -------------------------------- views -------------------------------- *)

Response(data, status) == [status |-> status, data |-> data]

NoRequest    == [endpoint |-> NoneValue, data |-> EmptyDict, FILES |-> EmptyDict]
NoResponse   == [status |-> 0, data |-> EmptyDict]
NoExtraction == [done |-> FALSE, file_path |-> NoneValue, raised |-> FALSE,
                 exc |-> "", invoked |-> {}, text |-> ""]
NoService    == [api_key |-> NoneValue, model_id |-> NoneValue,
                 client |-> [model |-> NoneValue, token |-> NoneValue]]
NoFrame      == [op |-> NoneValue, self |-> 0, caller |-> NoneValue]
NoReply      == [kind |-> "none", value |-> ""]
NoResult     == [raised |-> FALSE, value |-> EmptyDict]

\* A handler run from its entry to its first suspension: it has either
\* returned a Response, or it awaits an adapter operation.
Returned(resp, stg, ex) ==
    [kind |-> "return", response |-> resp, stages |-> stg, extraction |-> ex,
     op |-> NoneValue, model_id |-> NoneValue, kwargs |-> EmptyDict]

Awaiting(op, model_id, kwargs, stg, ex) ==
    [kind |-> "await", response |-> NoResponse, stages |-> stg, extraction |-> ex,
     op |-> op, model_id |-> model_id, kwargs |-> kwargs]

Extracted(ex) ==
    [done |-> TRUE, file_path |-> NoneValue, raised |-> ex.raised, exc |-> ex.exc,
     invoked |-> ex.invoked, text |-> ex.text]

\* Mutant: the result of is_valid() is ignored.
HuggingFaceView_post_async_Unchecked(req) ==
    LET vd == validated_data(TextGenerationRequestSerializer, req) IN
    Awaiting("generate_text", DictGet(vd, "model_id"),
             [prompt |-> DictGet(vd, "prompt"), max_length |-> vd.max_length,
              temperature |-> vd.temperature],
             <<"received", "validated", "dispatched">>, NoExtraction)

\* HuggingFaceView._post_async up to `await service.generate_text(...)`.
HuggingFaceView_post_async(req) ==
    LET serializer == TextGenerationRequestSerializer IN
    IF ~is_valid(serializer, req)
    THEN Returned(Response(SerializerErrors(serializer, req), 400),
                  <<"received">>, NoExtraction)
    ELSE LET vd == validated_data(serializer, req) IN
         Awaiting("generate_text", DictGet(vd, "model_id"),
                  [prompt |-> vd.prompt, max_length |-> vd.max_length,
                   temperature |-> vd.temperature],
                  <<"received", "validated", "dispatched">>, NoExtraction)

\* SummarizationView._post_async up to `await service.summarize_text(...)`.
SummarizationView_post_async(req, readable) ==
    LET serializer == TextSummarizationRequestSerializer IN
    IF ~is_valid(serializer, req)
    THEN Returned(Response(SerializerErrors(serializer, req), 400),
                  <<"received">>, NoExtraction)
    ELSE IF ~Truthy(DictGet(req.FILES, "file"))
    THEN Returned(Response([error |-> "No file uploaded"], 400),
                  <<"received", "validated">>, NoExtraction)
    ELSE LET ex == ViewExtract(readable)
             vd == validated_data(serializer, req) IN
         IF ex.raised
         THEN Returned(Response([error |-> "Failed to extract text: " \o ex.exc], 500),
                       <<"received", "validated">>, Extracted(ex))
         ELSE Awaiting("summarize_text", DictGet(vd, "model_id"),
                       [text |-> ex.text, max_length |-> vd.max_length,
                        min_length |-> vd.min_length],
                       <<"received", "validated", "extracted", "dispatched">>,
                       Extracted(ex))

\* QuestionGenerationView._post_async up to `await service.generate_questions(...)`.
QuestionGenerationView_post_async(req, readable) ==
    LET serializer == TextQuestionGenerationRequestSerializer IN
    IF ~is_valid(serializer, req)
    THEN Returned(Response(SerializerErrors(serializer, req), 400),
                  <<"received">>, NoExtraction)
    ELSE IF ~Truthy(DictGet(req.FILES, "file"))
    THEN Returned(Response([error |-> "No file uploaded"], 400),
                  <<"received", "validated">>, NoExtraction)
    ELSE LET ex == ViewExtract(readable)
             vd == validated_data(serializer, req) IN
         IF ex.raised
         THEN Returned(Response([error |-> "Failed to extract text: " \o ex.exc], 500),
                       <<"received", "validated">>, Extracted(ex))
         ELSE Awaiting("generate_questions", DictGet(vd, "model_id"),
                       [context |-> ex.text, num_questions |-> vd.num_questions],
                       <<"received", "validated", "extracted", "dispatched">>,
                       Extracted(ex))

\* Mutant: every envelope is answered 200.
ResponseFor_Always200(envelope) == Response(envelope, 200)

\* The closing `if result['status'] == 'success'` of every handler.
ResponseFor(envelope) ==
    IF envelope.status = "success"
    THEN Response(envelope, 200)
    ELSE Response(envelope, 500)

\* Mutant: one module-level service object shared by every request.
InstanceOf_Shared(r) == 1

\* `service = HuggingFaceService(...)` binds a fresh object in the frame of
\* the coroutine that runs the handler: one object per request.
InstanceOf(r) == r

\* The remote call the awaited operation issues.
AdapterCall(op, self, kwargs) ==
    CASE op = "generate_text" ->
            generate_text(self, kwargs.prompt, kwargs.max_length, kwargs.temperature)
      [] op = "summarize_text" ->
            summarize_text(self, kwargs.text, kwargs.max_length, kwargs.min_length)
      [] op = "generate_questions" ->
            generate_questions(self, kwargs.context, kwargs.num_questions)

(* ------------------------------- inputs -------------------------------- *)

\* A dict with the key k absent, or present with a value of V.
Opt(k, V) == {EmptyDict} \cup {k :> v : v \in V}

HttpRequest(endpoint, data, files) ==
    [endpoint |-> endpoint, data |-> data, FILES |-> files]

\* Requests to /generate: a prompt with every combination of max_length and
\* model_id, with a temperature of its own, and requests with a missing or
\* blank prompt or a number out of range.
GenerateRequests ==
    {HttpRequest("generate", ("prompt" :> "hi") @@ m @@ i, EmptyDict) :
        m \in Opt("max_length", {1000}), i \in Opt("model_id", {"", "m1"})}
    \cup {HttpRequest("generate", ("prompt" :> "hi") @@ ("temperature" :> 3) @@ m, EmptyDict) :
            m \in Opt("max_length", {1000})}
    \cup {HttpRequest("generate", d, EmptyDict) :
            d \in {EmptyDict, "prompt" :> "", "max_length" :> 1000,
                   ("prompt" :> "hi") @@ ("max_length" :> 1001),
                   ("prompt" :> "hi") @@ ("temperature" :> 11)}}

SummarizeRequests ==
    {HttpRequest("summarize", m @@ i, f) :
        f \in Opt("file", {"a.txt", "a.xyz"}), m \in Opt("max_length", {0}),
        i \in Opt("model_id", {})}

QuestionRequests ==
    {HttpRequest("generate-questions", c @@ n, f) :
        c \in Opt("context", {"ctx"}), f \in Opt("file", {"a.txt"}),
        n \in Opt("num_questions", {11})}

\* Outcomes of a remote call: a payload, or an exception with its str().
Payloads == {"generated"}

Exceptions == {"Connection timed out", ""}

\* Constructor and keyword arguments of direct invocations of the adapter.
ModelIdArgs == {NoneValue, "", "m1"}

\* File paths handed to TextExtractor: a stem and a tail.
FilePaths ==
    {stem \o tail :
        stem \in {"", "a", "x.pdf"},
        tail \in {".pdf", ".docx", ".txt", ".html", ".csv", ".xyz", "", ".PDF",
                  "pdf", ".pdf.bak", ".doc", ".htm", ".txt ", ".csvx"}}

(* ------------------------------- actions ------------------------------- *)

Init ==
    /\ settings = StartupSettings
    /\ pc = [r \in Reqs |-> "idle"]
    /\ request = [r \in Reqs |-> NoRequest]
    /\ stages = [r \in Reqs |-> << >>]
    /\ extraction = [r \in Reqs |-> NoExtraction]
    /\ service = [r \in Reqs |-> NoService]
    /\ frame = [r \in Reqs |-> NoFrame]
    /\ remote = [r \in Reqs |-> << >>]
    /\ reply = [r \in Reqs |-> NoReply]
    /\ result = [r \in Reqs |-> NoResult]
    /\ response = [r \in Reqs |-> NoResponse]

\* Coroutine r constructs its service and suspends on the executor call of
\* the operation op.
Suspend(r, caller, op, model_id, kwargs) ==
    LET self == HuggingFaceService__init__(NoneValue, model_id, settings) IN
    /\ service' = [service EXCEPT ![InstanceOf(r)] = self]
    /\ frame' = [frame EXCEPT ![r] = [op |-> op, self |-> InstanceOf(r), caller |-> caller]]
    /\ remote' = [remote EXCEPT ![r] = Append(@, AdapterCall(op, self, kwargs))]
    /\ pc' = [pc EXCEPT ![r] = "awaiting"]

\* post(request): the handler runs to its first await, or to its return.
\* Nothing before the await suspends, so this is one step of the event loop.
Handle(r, req, out) ==
    /\ request' = [request EXCEPT ![r] = req]
    /\ stages' = [stages EXCEPT ![r] = out.stages]
    /\ extraction' = [extraction EXCEPT ![r] = out.extraction]
    /\ IF out.kind = "return"
       THEN /\ response' = [response EXCEPT ![r] = out.response]
            /\ pc' = [pc EXCEPT ![r] = "done"]
            /\ UNCHANGED <<service, frame, remote>>
       ELSE /\ Suspend(r, "view", out.op, out.model_id, out.kwargs)
            /\ UNCHANGED response
    /\ UNCHANGED <<settings, reply, result>>

PostGenerate(r) ==
    /\ pc[r] = "idle"
    /\ \E req \in GenerateRequests : Handle(r, req, HuggingFaceView_post_async(req))

PostSummarize(r) ==
    /\ pc[r] = "idle"
    /\ \E req \in SummarizeRequests, readable \in BOOLEAN :
          Handle(r, req, SummarizationView_post_async(req, readable))

PostQuestions(r) ==
    /\ pc[r] = "idle"
    /\ \E req \in QuestionRequests, readable \in BOOLEAN :
          Handle(r, req, QuestionGenerationView_post_async(req, readable))

\* Mutant: after a failed remote call the operation calls again, once.
Resume_Retry(r, outcome) ==
    IF outcome.kind = "raise" /\ Len(remote[r]) < 2
    THEN /\ reply' = [reply EXCEPT ![r] = outcome]
         /\ remote' = [remote EXCEPT ![r] = Append(@, @[1])]
         /\ UNCHANGED <<settings, pc, request, stages, extraction, service, frame,
                        result, response>>
    ELSE LET res == AdapterReturn(frame[r].op, service[frame[r].self], outcome) IN
         /\ reply' = [reply EXCEPT ![r] = outcome]
         /\ result' = [result EXCEPT ![r] = res]
         /\ response' = [response EXCEPT ![r] = ResponseFor(res.value)]
         /\ stages' = [stages EXCEPT ![r] = Append(@, "completed")]
         /\ pc' = [pc EXCEPT ![r] = "done"]
         /\ UNCHANGED <<settings, request, extraction, service, frame, remote>>

\* The executor call finishes: the adapter operation resumes and returns its
\* envelope, and a handler awaiting it resumes in the same step and answers
\* (an exception raised by the operation would leave the handler unhandled).
Resume(r, outcome) ==
    LET res == AdapterReturn(frame[r].op, service[frame[r].self], outcome) IN
    /\ reply' = [reply EXCEPT ![r] = outcome]
    /\ result' = [result EXCEPT ![r] = res]
    /\ IF frame[r].caller = "view"
       THEN /\ response' = [response EXCEPT ![r] =
                              IF res.raised
                              THEN Response([unhandled |-> outcome.value], 500)
                              ELSE ResponseFor(res.value)]
            /\ stages' = [stages EXCEPT ![r] = Append(@, "completed")]
            /\ pc' = [pc EXCEPT ![r] = "done"]
       ELSE /\ pc' = [pc EXCEPT ![r] = "returned"]
            /\ UNCHANGED <<response, stages>>
    /\ UNCHANGED <<settings, request, extraction, service, frame, remote>>

ExecutorReturn(r) ==
    /\ pc[r] = "awaiting"
    /\ \E payload \in Payloads : Resume(r, [kind |-> "return", value |-> payload])

ExecutorRaise(r) ==
    /\ pc[r] = "awaiting"
    /\ \E e \in Exceptions : Resume(r, [kind |-> "raise", value |-> e])

Next ==
    \E r \in Reqs :
        \/ PostGenerate(r)
        \/ PostSummarize(r)
        \/ PostQuestions(r)
        \/ ExecutorReturn(r)
        \/ ExecutorRaise(r)

Spec == Init /\ [][Next]_vars

\* The same handlers against a backend that is down: every remote call fails.
NextDown ==
    \E r \in Reqs :
        \/ PostGenerate(r)
        \/ PostSummarize(r)
        \/ PostQuestions(r)
        \/ ExecutorRaise(r)

SpecDown == Init /\ [][NextDown]_vars

\* The adapter operations invoked directly on a freshly constructed service.
Invoke(r, op, model_id, kwargs) ==
    /\ Suspend(r, "direct", op, model_id, kwargs)
    /\ UNCHANGED <<settings, request, stages, extraction, reply, result, response>>

CallGenerateText(r) ==
    /\ pc[r] = "idle"
    /\ \E model_id \in ModelIdArgs, temperature \in {3, 7} :
          Invoke(r, "generate_text", model_id,
                 [prompt |-> "hi", max_length |-> 100, temperature |-> temperature])

CallSummarizeText(r) ==
    /\ pc[r] = "idle"
    /\ \E model_id \in ModelIdArgs, min_length \in {50, 300} :
          Invoke(r, "summarize_text", model_id,
                 [text |-> "doc", max_length |-> 200, min_length |-> min_length])

CallGenerateQuestions(r) ==
    /\ pc[r] = "idle"
    /\ \E model_id \in ModelIdArgs, num_questions \in {1, 5} :
          Invoke(r, "generate_questions", model_id,
                 [context |-> "ctx", num_questions |-> num_questions])

NextAdapter ==
    \E r \in Reqs :
        \/ CallGenerateText(r)
        \/ CallSummarizeText(r)
        \/ CallGenerateQuestions(r)
        \/ ExecutorReturn(r)
        \/ ExecutorRaise(r)

SpecAdapter == Init /\ [][NextAdapter]_vars

\* TextExtractor used as its `__main__` block uses it: constructed with a
\* file path, then extract_text(); the file may or may not be readable.
MainExtract(r) ==
    /\ pc[r] = "idle"
    /\ \E file_path \in FilePaths, readable \in BOOLEAN :
          LET ctor == TextExtractor__init__(<<file_path>>)
              ex   == extract_text(ctor.file_path, readable)
          IN extraction' = [extraction EXCEPT ![r] =
                              [Extracted(ex) EXCEPT !.file_path = file_path]]
    /\ pc' = [pc EXCEPT ![r] = "done"]
    /\ UNCHANGED <<settings, request, stages, service, frame, remote, reply,
                   result, response>>

NextExtract == \E r \in Reqs : MainExtract(r)

SpecExtract == Init /\ [][NextExtract]_vars

(* ============================== properties ============================= *)

SerializerOf(endpoint) ==
    CASE endpoint = "generate" -> TextGenerationRequestSerializer
      [] endpoint = "summarize" -> TextSummarizationRequestSerializer
      [] endpoint = "generate-questions" -> TextQuestionGenerationRequestSerializer

Valid(r) == is_valid(SerializerOf(request[r].endpoint), request[r])

Validated(r) == validated_data(SerializerOf(request[r].endpoint), request[r])

Has(d, k, v) == k \in DOMAIN d /\ d[k] = v

\* The adapter operation of request r was invoked and has returned.
AdapterReturned(r) == pc[r] = "done" /\ remote[r] # << >>

\* C1: in every handler, once the adapter operation was invoked and returned
\* an envelope, the response is 200 exactly when the envelope's status is
\* success, 500 exactly when it is error, and its body is that envelope.
C1_StatusMapsEnvelope ==
    \A r \in Reqs :
        AdapterReturned(r) =>
            /\ ~result[r].raised
            /\ response[r].data = result[r].value
            /\ result[r].value.status \in {"success", "error"}
            /\ response[r].status = 200 <=> result[r].value.status = "success"
            /\ response[r].status = 500 <=> result[r].value.status = "error"

C1_Witness ==
    \E r1, r2 \in Reqs :
        /\ AdapterReturned(r1) /\ response[r1].status = 200
        /\ AdapterReturned(r2) /\ response[r2].status = 500

\* C2: every adapter operation returns an envelope whatever the remote call
\* did and never raises: {status: error, message, model} with the adapter's
\* model id and a message made from the cause when the call failed,
\* {status: success, model, response} (questions for generate_questions) with
\* the raw payload when it succeeded.
C2_AdapterAlwaysReturnsEnvelope ==
    \A r \in Reqs :
        pc[r] = "returned" =>
            LET self == service[frame[r].self]
                env  == result[r].value
                key  == IF frame[r].op = "generate_questions"
                        THEN "questions" ELSE "response"
            IN /\ ~result[r].raised
               /\ self.model_id = remote[r][1].model
               /\ reply[r].kind = "raise" =>
                     /\ DOMAIN env = {"status", "message", "model"}
                     /\ env.status = "error"
                     /\ env.model = self.model_id
                     /\ env.message = "Error: " \o reply[r].value
               /\ reply[r].kind = "return" =>
                     /\ DOMAIN env = {"status", "model", key}
                     /\ env.status = "success"
                     /\ env.model = self.model_id
                     /\ env[key] = reply[r].value

C2_Witness ==
    \E r1, r2 \in Reqs :
        /\ pc[r1] = "returned" /\ frame[r1].op = "generate_questions"
        /\ reply[r1].kind = "return"
        /\ pc[r2] = "returned" /\ frame[r2].op = "summarize_text"
        /\ reply[r2].kind = "raise"

SupportedSuffixes == {".pdf", ".docx", ".txt", ".html", ".csv"}

\* A summarize request that passes validation and carries a file of a
\* supported format.
SummarizeWithSupportedFile(r) ==
    /\ request[r].endpoint = "summarize"
    /\ Valid(r)
    /\ "file" \in DOMAIN request[r].FILES
    /\ \E sfx \in SupportedSuffixes : endswith(request[r].FILES.file, sfx)

\* C3: with the remote summarization failing, a summarize request that
\* passes validation and carries a file of a supported format is answered 500
\* with a body whose status is error and whose message is not empty.
C3_RemoteFailureIsErrorEnvelope ==
    \A r \in Reqs :
        (pc[r] = "done" /\ SummarizeWithSupportedFile(r)) =>
            /\ response[r].status = 500
            /\ Has(response[r].data, "status", "error")
            /\ "message" \in DOMAIN response[r].data
            /\ response[r].data.message # ""

\* A generate-questions request that passes validation and carries a context
\* and no file.
QuestionsWithContextOnly(r) ==
    /\ request[r].endpoint = "generate-questions"
    /\ Valid(r)
    /\ "context" \in DOMAIN request[r].data
    /\ "file" \notin DOMAIN request[r].FILES

\* C4: a generate-questions request that passes validation and carries a
\* context but no file is not rejected for the missing file, and
\* generate_questions is invoked with that context and the validated
\* num_questions.
C4_QuestionsNeedNoFile ==
    \A r \in Reqs :
        (pc[r] # "idle" /\ QuestionsWithContextOnly(r)) =>
            /\ ~Has(response[r].data, "error", "No file uploaded")
            /\ Len(remote[r]) = 1
            /\ remote[r][1].task = "text2text_generation"
            /\ remote[r][1].input = "generate questions: " \o request[r].data.context
            /\ remote[r][1].parameters.num_return_sequences = Validated(r).num_questions

StageOrder == <<"received", "validated", "extracted", "dispatched", "completed">>

StageRank(stage) == CHOOSE i \in 1..Len(StageOrder) : StageOrder[i] = stage

\* The endpoints whose handler checks for an uploaded file and extracts it.
FileBased(endpoint) == endpoint \in {"summarize", "generate-questions"}

\* C5: a request passes through received, validated, (extracted),
\* dispatched, completed in that order; the adapter operation is invoked only
\* after validation succeeded and, on the file-based endpoints, after the
\* file was found and its text extracted; a request that fails validation is
\* answered 400 with the field errors; a request that fails validation,
\* file presence or extraction causes no remote call.
C5_PipelineOrder ==
    \A r \in Reqs :
        pc[r] # "idle" =>
            LET serializer == SerializerOf(request[r].endpoint)
                stg == stages[r]
                failed == \/ ~Valid(r)
                          \/ /\ FileBased(request[r].endpoint)
                             /\ \/ "file" \notin DOMAIN request[r].FILES
                                \/ extraction[r].raised
            IN /\ stg[1] = "received"
               /\ \A i \in 1..(Len(stg) - 1) : StageRank(stg[i]) < StageRank(stg[i + 1])
               /\ remote[r] # << >> =>
                     /\ Valid(r)
                     /\ SubSeq(stg, 1, 2) = <<"received", "validated">>
                     /\ "dispatched" \in {stg[i] : i \in 1..Len(stg)}
                     /\ FileBased(request[r].endpoint) =>
                           /\ "file" \in DOMAIN request[r].FILES
                           /\ extraction[r].done /\ ~extraction[r].raised
                           /\ SubSeq(stg, 1, 3) = <<"received", "validated", "extracted">>
               /\ ~Valid(r) =>
                     /\ pc[r] = "done"
                     /\ response[r] = Response(SerializerErrors(serializer, request[r]), 400)
                     /\ DOMAIN response[r].data # {}
                     /\ stg = <<"received">>
               /\ failed =>
                     /\ pc[r] = "done"
                     /\ remote[r] = << >>
                     /\ "dispatched" \notin {stg[i] : i \in 1..Len(stg)}

C5_Witness ==
    \E r1, r2 \in Reqs :
        /\ pc[r1] = "done" /\ ~Valid(r1) /\ response[r1].status = 400
        /\ pc[r2] = "done" /\ Valid(r2) /\ Len(remote[r2]) = 1
        /\ stages[r2] = <<"received", "validated", "dispatched", "completed">>

ExtractorFor(sfx) ==
    CASE sfx = ".pdf" -> "extract_text_from_pdf"
      [] sfx = ".docx" -> "extract_text_from_docx"
      [] sfx = ".txt" -> "extract_text_from_txt"
      [] sfx = ".html" -> "extract_text_from_html"
      [] sfx = ".csv" -> "extract_text_from_csv"

\* The supported suffixes that are a tail of the path.
SuffixesOf(path) ==
    {sfx \in SupportedSuffixes :
        \E n \in 0..Len(path) : SubSeq(path, n + 1, Len(path)) = sfx}

\* C6: for a file name ending in none of the five suffixes extract_text
\* fails with the unsupported-format error and invokes no extractor; for a
\* name ending in one of them exactly the extractor of that suffix is
\* invoked, whatever the file holds.
C6_SuffixSelectsExtractor ==
    \A r \in Reqs :
        extraction[r].done =>
            LET ex == extraction[r]
                sfxs == SuffixesOf(ex.file_path)
            IN /\ sfxs = {} =>
                     /\ ex.raised
                     /\ ex.exc = "Unsupported file format"
                     /\ ex.invoked = {}
               /\ \A sfx \in sfxs : ex.invoked = {ExtractorFor(sfx)}

C6_Witness ==
    \E r1, r2 \in Reqs :
        /\ extraction[r1].done /\ extraction[r1].file_path = "x.pdf.xyz"
        /\ extraction[r1].exc = "Unsupported file format"
        /\ extraction[r2].done /\ extraction[r2].file_path = "a.docx"
        /\ extraction[r2].invoked = {"extract_text_from_docx"}
        /\ extraction[r2].raised

\* The model id a request asks for: its model_id, or the default when the
\* field is absent or blank.
ExpectedModel(r) ==
    LET model_id == DictGet(request[r].data, "model_id") IN
    IF model_id # NoneValue /\ model_id # "" THEN model_id
    ELSE StartupSettings.DEFAULT_HUGGINGFACE_MODEL

\* C7: the model id of the remote call and of the model field of every
\* envelope is the request's model_id when it is given and not empty, the
\* process-wide default otherwise; the configuration is never modified.
C7_ModelIdOverride ==
    /\ settings = StartupSettings
    /\ \A r \in Reqs :
          /\ remote[r] # << >> => \A i \in 1..Len(remote[r]) : remote[r][i].model = ExpectedModel(r)
          /\ AdapterReturned(r) => Has(response[r].data, "model", ExpectedModel(r))

C7_Witness ==
    \E r1, r2 \in Reqs :
        /\ AdapterReturned(r1) /\ Has(request[r1].data, "model_id", "m1")
        /\ response[r1].data.model = "m1"
        /\ AdapterReturned(r2) /\ Has(request[r2].data, "model_id", "")
        /\ response[r2].data.model = "default-model"
        /\ response[r2].data.status = "error"

\* The handler of an endpoint, run to its first await or its return.
HandlerOf(req) ==
    CASE req.endpoint = "generate" -> HuggingFaceView_post_async(req)
      [] req.endpoint = "summarize" -> SummarizationView_post_async(req, TRUE)
      [] req.endpoint = "generate-questions" -> QuestionGenerationView_post_async(req, TRUE)

\* What a request handled alone issues and answers, given the outcome of its
\* remote call.
AloneService(req) ==
    HuggingFaceService__init__(NoneValue, HandlerOf(req).model_id, StartupSettings)

AloneCalls(req) ==
    LET out == HandlerOf(req) IN
    IF out.kind = "return" THEN << >>
    ELSE <<AdapterCall(out.op, AloneService(req), out.kwargs)>>

AloneResponse(req, outcome) ==
    LET out == HandlerOf(req) IN
    IF out.kind = "return" THEN out.response
    ELSE ResponseFor(AdapterReturn(out.op, AloneService(req), outcome).value)

\* C8: requests in flight together do not interfere: whatever the
\* interleaving, each request issues the remote call and receives the
\* response (status and envelope, model field included) it would if it were
\* handled alone with the same remote reply.
C8_NoInterference ==
    \A r \in Reqs :
        /\ pc[r] # "idle" => remote[r] = AloneCalls(request[r])
        /\ pc[r] = "done" => response[r] = AloneResponse(request[r], reply[r])

C8_Witness ==
    \E r1, r2 \in Reqs :
        /\ r1 # r2
        /\ pc[r1] = "done" /\ pc[r2] = "awaiting"
        /\ Has(response[r1].data, "model", "m1")
        /\ remote[r2][1].model = "default-model"
        /\ service[frame[r1].self] # service[frame[r2].self]

\* C9: a request causes at most one remote call; once the call has failed
\* no further call is made for the request and the failure is answered at
\* once as an error envelope.
C9_SingleRemoteCall ==
    \A r \in Reqs :
        /\ Len(remote[r]) <= 1
        /\ reply[r].kind = "raise" =>
              /\ Len(remote[r]) = 1
              /\ pc[r] = "done"
              /\ response[r].status = 500
              /\ Has(response[r].data, "status", "error")
              /\ Has(response[r].data, "message", "Error: " \o reply[r].value)

C9_Witness ==
    \E r \in Reqs :
        /\ reply[r].kind = "raise" /\ reply[r].value = "Connection timed out"
        /\ pc[r] = "done" /\ Len(remote[r]) = 1
        /\ response[r].status = 500

\* A dict without the key k.
Without(d, k) == [x \in DOMAIN d \ {k} |-> d[x]]

\* Two generate requests that pass validation and differ in max_length only.
DifferInMaxLengthOnly(r1, r2) ==
    /\ request[r1].endpoint = "generate" /\ request[r2].endpoint = "generate"
    /\ Valid(r1) /\ Valid(r2)
    /\ Without(request[r1].data, "max_length") = Without(request[r2].data, "max_length")
    /\ Validated(r1).max_length # Validated(r2).max_length

====
